---- MODULE Spec2Model ----
(***************************************************************************)
(* Model of @hoajs/adapter's nodeServer extension (src/src/nodeServer.js). *)
(*                                                                         *)
(* nodeServer(options) returns an extension; applying the extension to an  *)
(* app creates a server adapter and one host HTTP server, and installs     *)
(* app.listen, which forwards its arguments to that server's listen and    *)
(* returns what the host returns.                                          *)
(*                                                                         *)
(* The host HTTP server (node's http.Server) is a collaborator outside the *)
(* repository.  It is modelled at its boundary: listen registers the       *)
(* completion callback as a one-shot listener of the listening             *)
(* notification, binds asynchronously, and then either becomes listening   *)
(* and notifies, or reports an error and is idle again.  Calling listen on *)
(* a server that is already binding or listening is left to the host: it   *)
(* either throws or accepts the call.                                      *)
(***************************************************************************)
EXTENDS Integers, Sequences, FiniteSets, TLC

\* Bounds of the model.
MaxExtensions == 1      \* nodeServer(options) calls
MaxServers == 2         \* applications of an extension to an app
MaxCalls == 2           \* app.listen calls

Apps == {"app1", "app2"}

\* Values that occur in listen's argument lists, by their JavaScript type.
Ports == {0, 3000}
Port(p) == [type |-> "number", v |-> p]
Host == [type |-> "string", v |-> 0]
Backlog == [type |-> "number", v |-> 511]
Callback == [type |-> "function", v |-> 0]

\* Call shapes of listen declared in types/index.d.ts: no argument; port and
\* callback; port, host and callback; port, host, backlog and callback.
ArgLists ==
    {<<>>, <<Port(3000), Callback>>, <<Port(0), Host, Callback>>,
     <<Port(3000), Host, Backlog, Callback>>}

\* What a call gives its caller: the value returned, or the host's exception.
Returned(value) == [threw |-> FALSE, value |-> value]
Threw == [threw |-> TRUE, value |-> 0]

VARIABLES
    extensions,   \* number of extensions returned by nodeServer(options)
    applied,      \* number of times an extension was applied to an app
    servers,      \* the host servers created so far, in order of creation
    appListen,    \* app -> the httpServer its current listen closes over, 0: no listen
    calls,        \* the app.listen calls made, as their caller sees them: the
                  \* arguments, the result, and how many servers existed and
                  \* what state the listen's server was in when the call returned
    hostCalls,    \* the listen calls the host servers received
    cbCount,      \* per app.listen call: times its callback was invoked
    failed        \* app.listen calls whose bind attempt ended in an error

vars == <<extensions, applied, servers, appListen, calls, hostCalls, cbCount, failed>>

(***************************************************************************)
(* The host server.                                                        *)
(***************************************************************************)

\* createServer(serverAdapter): a server that is not listening; app is the
\* app whose fetch the adapter closes over.
NewServer(app) ==
    [app |-> app, state |-> "idle", port |-> 0, once |-> {},
     pending |-> {}, emitted |-> 0]

\* The host reads the completion callback from the last argument
\* and the port from the first; without a port it picks any free one (0).
HasCallback(args) == Len(args) > 0 /\ args[Len(args)].type = "function"
PortOf(args) == IF Len(args) > 0 /\ args[1].type = "number" THEN args[1].v ELSE 0

\* server.listening
Listening(srv) == srv.state = "listening"

\* httpServer.listen(...args) accepted by the host for call id: the callback
\* becomes a one-shot listener of the listening notification, and an idle
\* server starts binding the port.
HostListen(srv, args, id) ==
    [srv EXCEPT
        !.once = IF HasCallback(args) THEN @ \cup {id} ELSE @,
        !.pending = IF srv.state = "idle" THEN {id} ELSE @,
        !.port = IF srv.state = "idle" THEN PortOf(args) ELSE @,
        !.state = IF @ = "idle" THEN "binding" ELSE @]

\* A port can be bound when it is 0 (any free port) or no other server holds it.
Bindable(s) ==
    \/ servers[s].port = 0
    \/ \A t \in 1..Len(servers) :
          t # s => ~(Listening(servers[t]) /\ servers[t].port = servers[s].port)

(***************************************************************************)
(* nodeServer.js                                                           *)
(***************************************************************************)

\* nodeServer(options): returns the extension; options are not read.
nodeServer ==
    /\ extensions < MaxExtensions
    /\ extensions' = extensions + 1
    /\ UNCHANGED <<applied, servers, appListen, calls, hostCalls, cbCount, failed>>

\* const httpServer = createServer(serverAdapter)
createServer(srvs, app) == Append(srvs, NewServer(app))

KeepFirstListen(old, new) == IF old # 0 THEN old ELSE new

\* app.listen = function listen ... : the new closure replaces any earlier one.
InstallListen(old, new) == new

\* nodeServerExtension(app): the adapter and its server are created, listen installed.
nodeServerExtension(app) ==
    /\ extensions > 0
    /\ applied < MaxServers
    /\ applied' = applied + 1
    /\ servers' = createServer(servers, app)
    /\ appListen' = [appListen EXCEPT ![app] = InstallListen(@, Len(servers) + 1)]
    /\ UNCHANGED <<extensions, calls, hostCalls, cbCount, failed>>

DropLastArg(listenArgs) ==
    IF Len(listenArgs) = 0 THEN listenArgs
    ELSE SubSeq(listenArgs, 1, Len(listenArgs) - 1)

SwapFirstTwoArgs(listenArgs) ==
    IF Len(listenArgs) < 2 THEN listenArgs
    ELSE <<listenArgs[2], listenArgs[1]>> \o SubSeq(listenArgs, 3, Len(listenArgs))

\* httpServer.listen(...listenArgs): the rest parameter is spread unchanged.
ForwardArgs(listenArgs) == listenArgs

\* return httpServer.listen(...)
ListenResult(hostResult) == hostResult

\* app.listen(...listenArgs).  onBusy is the host's answer to a listen on a
\* server that is already binding or listening.
listen(app, listenArgs, onBusy) ==
    /\ appListen[app] # 0
    /\ Len(calls) < MaxCalls
    /\ LET httpServer == appListen[app]
           id == Len(calls) + 1
           args == ForwardArgs(listenArgs)
           busy == servers[httpServer].state # "idle"
           throws == busy /\ onBusy = "throw"
       IN  /\ ~busy => onBusy = "accept"
           /\ hostCalls' = Append(hostCalls, [id |-> id, srv |-> httpServer, args |-> args])
           /\ servers' = IF throws THEN servers
                         ELSE [servers EXCEPT ![httpServer] = HostListen(@, args, id)]
           /\ calls' = Append(calls,
                 [app |-> app, args |-> listenArgs, busy |-> busy,
                  created |-> Len(servers),
                  state |-> servers'[httpServer].state,
                  ret |-> ListenResult(IF throws THEN Threw ELSE Returned(httpServer))])
           /\ cbCount' = Append(cbCount, 0)
    /\ UNCHANGED <<extensions, applied, appListen, failed>>

\* The host finishes binding server s: it is listening and notifies, invoking
\* and dropping every one-shot listener; or it reports an error and is idle.
HostBind(s) ==
    /\ s \in 1..Len(servers)
    /\ servers[s].state = "binding"
    /\ IF Bindable(s)
       THEN /\ servers' = [servers EXCEPT ![s].state = "listening",
                                          ![s].emitted = @ + 1,
                                          ![s].once = {},
                                          ![s].pending = {}]
            /\ cbCount' = [i \in 1..Len(cbCount) |->
                              IF i \in servers[s].once THEN cbCount[i] + 1
                              ELSE cbCount[i]]
            /\ failed' = failed
       ELSE /\ servers' = [servers EXCEPT ![s].state = "idle",
                                          ![s].pending = {}]
            /\ failed' = failed \cup servers[s].pending
            /\ cbCount' = cbCount
    /\ UNCHANGED <<extensions, applied, appListen, calls, hostCalls>>

Init ==
    /\ extensions = 0
    /\ applied = 0
    /\ servers = <<>>
    /\ appListen = [a \in Apps |-> 0]
    /\ calls = <<>>
    /\ hostCalls = <<>>
    /\ cbCount = <<>>
    /\ failed = {}

Next ==
    \/ nodeServer
    \/ \E app \in Apps : nodeServerExtension(app)
    \/ \E app \in Apps, listenArgs \in ArgLists, onBusy \in {"throw", "accept"} :
          listen(app, listenArgs, onBusy)
    \/ \E s \in 1..MaxServers : HostBind(s)

Spec == Init /\ [][Next]_vars

\* The host completes every bind attempt it has started.
LiveSpec == Spec /\ WF_vars(\E s \in 1..MaxServers : HostBind(s))

TypeOK ==
    /\ extensions \in 0..MaxExtensions
    /\ applied \in 0..MaxServers
    /\ Len(servers) <= MaxServers
    /\ \A a \in Apps : appListen[a] \in 0..Len(servers)
    /\ Len(calls) <= MaxCalls
    /\ Len(cbCount) = Len(calls)
    /\ failed \subseteq 1..Len(calls)

(***************************************************************************)
(* Properties                                                              *)
(***************************************************************************)

CallIds == 1..Len(calls)

ReturnedCall(i) == i \in CallIds /\ ~calls[i].ret.threw

\* The host server a call of app.listen reached.
ServerOfCall(i) == hostCalls[i].srv

\* The server the latest application of an extension to the call's app had
\* created when call i was made.
LatestServerFor(i) ==
    CHOOSE s \in 1..calls[i].created :
        /\ servers[s].app = calls[i].app
        /\ \A t \in 1..calls[i].created : servers[t].app = calls[i].app => t <= s

\* C1: every call of app.listen reaches the host's listen exactly once, with the
\* same arguments in the same order, on a server created by applying the
\* extension to that app; the call returns that server's handle in the same
\* step, and fails to return only when the host threw on a server that was
\* already binding or listening.
C1_ListenForwardsArguments ==
    /\ Len(hostCalls) = Len(calls)
    /\ \A i \in CallIds :
          /\ Cardinality({j \in 1..Len(hostCalls) : hostCalls[j].id = i}) = 1
          /\ hostCalls[i].id = i
          /\ hostCalls[i].args = calls[i].args
          /\ servers[ServerOfCall(i)].app = calls[i].app
          /\ ReturnedCall(i) => calls[i].ret.value = ServerOfCall(i)
          /\ calls[i].ret.threw => calls[i].busy

\* A call with port, host, backlog and callback has returned its server's handle
\* while that server was still binding, and it is not listening yet.
C1_Witness ==
    \E i \in CallIds :
        /\ Len(calls[i].args) = 4
        /\ ReturnedCall(i)
        /\ calls[i].ret.value = ServerOfCall(i)
        /\ calls[i].state = "binding"
        /\ ~Listening(servers[ServerOfCall(i)])

\* A call of app.listen with a completion callback, on a server that was not
\* already binding or listening (where the host's listen is defined).
CallbackCall(i) ==
    i \in CallIds /\ HasCallback(calls[i].args) /\ ~calls[i].busy

\* C2: the callback of a listen call is invoked eventually unless the bind fails,
\* which it never does on the free-port port 0; no callback is ever invoked
\* twice, none is invoked for a call that passed none, and a server that has
\* notified listening reports itself as listening.
C2_CallbackInvokedOnce ==
    /\ \A i \in 1..MaxCalls :
          [](CallbackCall(i) => <>(i \in CallIds /\ (cbCount[i] = 1 \/ i \in failed)))
    /\ [](\A i \in CallIds :
             /\ cbCount[i] <= (IF HasCallback(calls[i].args) THEN 1 ELSE 0)
             /\ i \in failed => PortOf(calls[i].args) # 0)
    /\ [](\A s \in 1..Len(servers) :
             servers[s].emitted > 0 => Listening(servers[s]))

\* listen(0, "localhost", callback) has invoked its callback once and its
\* server reports itself as listening.
C2_Witness ==
    \E i \in CallIds :
        /\ calls[i].args = <<Port(0), Host, Callback>>
        /\ CallbackCall(i)
        /\ cbCount[i] = 1
        /\ servers[ServerOfCall(i)].emitted = 1
        /\ Listening(servers[ServerOfCall(i)])

\* C3 as stated: one server per application of the extension, and all the listen
\* calls on one app that return give the same server handle.
C3_SameHandlePerApp ==
    /\ Len(servers) = applied
    /\ \A i, j \in CallIds :
          (ReturnedCall(i) /\ ReturnedCall(j) /\ calls[i].app = calls[j].app)
              => calls[i].ret.value = calls[j].ret.value

\* C3, amended: exactly one server exists per application of the extension to an
\* app (nodeServer(options) and listen create none), and every listen call that
\* returns gives the server created by the latest application of the extension
\* to its app.
C3_OneServerPerApplication ==
    /\ Len(servers) = applied
    /\ \A i \in CallIds :
          ReturnedCall(i) => calls[i].ret.value = LatestServerFor(i)

\* Two listen calls on one app have returned the same handle although the
\* extension was applied more than once.
C3_Witness ==
    /\ applied >= 2
    /\ Len(servers) = applied
    /\ \E i, j \in CallIds :
          /\ i # j
          /\ calls[i].app = calls[j].app
          /\ ReturnedCall(i) /\ ReturnedCall(j)
          /\ calls[i].ret.value = calls[j].ret.value

====
